---- MODULE Spec2Model ----
(***************************************************************************)
(* Model of export/mapnik/render.py: the layer compositor                  *)
(* MapnikRenderer.render, the Layer variants and their use of the cairo    *)
(* context, and the tile file name parser in TileLayer.__init__.           *)
(*                                                                         *)
(* Strings are sequences of one-character strings.  Coordinates live on a  *)
(* small integer lattice; cairo scale factors are kept as fractions        *)
(* (numerator, denominator) so that 1/zoom and int(...) truncations are    *)
(* computed as the code computes them.                                     *)
(***************************************************************************)
EXTENDS Integers, Sequences, FiniteSets, TLC

VARIABLES
    pc,          \* position of the process in __main__ / render
    areas,       \* MapnikRenderer.areas (constructor argument)
    bbox,        \* args.bbox, split at its commas
    style_name,  \* args.style ("" = None)
    qrcode,      \* args.qrcode: QR image path ("" = None)
    style,       \* StyleParser.style record of the selected style
    bounds,      \* result of googleBoundsToBox2d(args.bbox)
    surface,     \* cairo surface kind: "none", "pdf", "svg", "finished"
    gstate,      \* current cairo graphics state of self.ctx
    gstack,      \* cairo save() stack of self.ctx
    ops,         \* drawing commands emitted on the canvas, in order
    layers,      \* the list `layers` built by render()
    idx,         \* position of the `for layer in layers` loop (1-based)
    drawn,       \* layer kinds whose draw() has been invoked, in order
    tiles,       \* tile files: covering set and what download() returned
    output_file, \* MapnikRenderer.output_file ("" = attribute not set)
    stdout,      \* what __main__ wrote to stdout
    filename,    \* TileLayer.__init__ argument (tile parser specification)
    tile         \* TileLayer fields after __init__ (tile parser specification)

vars == <<pc, areas, bbox, style_name, qrcode, style, bounds, surface, gstate, gstack, ops,
          layers, idx, drawn, tiles, output_file, stdout, filename, tile>>

----------------------------------------------------------------------------
(* Bounds of the model *)

MaxNameLen == 5
MaxAreas == 2

----------------------------------------------------------------------------
(* Strings: os.path.basename, str.split, int() *)

NameChars == {"1", "2", "a", "_", ".", "-", "/"}

RECURSIVE NamesOfLen(_)
NamesOfLen(n) ==
    IF n = 0 THEN {<<>>}
    ELSE {Append(s, c) : s \in NamesOfLen(n - 1), c \in NameChars}

\* every file name of at most `len` characters
Names(len) == UNION {NamesOfLen(n) : n \in 0..len}

HasChar(s, c) == \E i \in 1..Len(s) : s[i] = c

FirstIndex(s, c) == CHOOSE i \in 1..Len(s) : s[i] = c /\ \A j \in 1..(i - 1) : s[j] # c

LastIndex(s, c) == CHOOSE i \in 1..Len(s) : s[i] = c /\ \A j \in (i + 1)..Len(s) : s[j] # c

\* os.path.basename(p): the text after the last "/"
Basename(s) ==
    IF HasChar(s, "/") THEN SubSeq(s, LastIndex(s, "/") + 1, Len(s)) ELSE s

\* str.split(c): every occurrence of c separates, empty parts are kept
RECURSIVE Split(_, _)
Split(s, c) ==
    IF ~HasChar(s, c) THEN <<s>>
    ELSE LET i == FirstIndex(s, c)
         IN  <<SubSeq(s, 1, i - 1)>> \o Split(SubSeq(s, i + 1, Len(s)), c)

Digits == {"0", "1", "2", "3", "4", "5", "6", "7", "8", "9"}

DigitVal(c) ==
    CASE c = "0" -> 0 [] c = "1" -> 1 [] c = "2" -> 2 [] c = "3" -> 3
      [] c = "4" -> 4 [] c = "5" -> 5 [] c = "6" -> 6 [] c = "7" -> 7
      [] c = "8" -> 8 [] c = "9" -> 9

AllDigits(s) == Len(s) > 0 /\ \A i \in 1..Len(s) : s[i] \in Digits

\* int(s) succeeds: an optional sign followed by at least one digit
IntOk(s) ==
    IF Len(s) > 0 /\ s[1] = "-" THEN AllDigits(Tail(s)) ELSE AllDigits(s)

RECURSIVE NatVal(_)
NatVal(s) ==
    IF Len(s) = 0 THEN 0
    ELSE 10 * NatVal(SubSeq(s, 1, Len(s) - 1)) + DigitVal(s[Len(s)])

\* int(s) where it succeeds
IntVal(s) == IF s[1] = "-" THEN 0 - NatVal(Tail(s)) ELSE NatVal(s)

----------------------------------------------------------------------------
(* TileLayer.__init__ *)

NoTile == [raised |-> FALSE, tx |-> 0, ty |-> 0, tz |-> 0]

\* The fields a constructed TileLayer holds, or raised = TRUE when int()
\* raises ValueError inside the constructor.
TileLayer_init(fname) ==
    LET basename == Split(Basename(fname), ".")[1]
        parts    == Split(basename, "_")
    IN  IF Len(parts) = 3
        THEN IF IntOk(parts[1]) /\ IntOk(parts[2]) /\ IntOk(parts[3])
             THEN [raised |-> FALSE, tx |-> IntVal(parts[1]),
                   ty |-> IntVal(parts[2]), tz |-> IntVal(parts[3])]
             ELSE [raised |-> TRUE, tx |-> 0, ty |-> 0, tz |-> 0]
        ELSE [raised |-> FALSE, tx |-> 0, ty |-> 0, tz |-> 0]

----------------------------------------------------------------------------
(* The cairo context: graphics state, save/restore stack, emitted commands *)

\* A user-space point (x, y) is at device position
\* ((sn * x + tnx) / d, (sn * y + tny) / d).  src, lw and font are the paint
\* state that save()/restore() cover as well.
InitialGState ==
    [sn |-> 1, tnx |-> 0, tny |-> 0, d |-> 1,
     src |-> "black", lw |-> "default", font |-> "default"]

NewContext == [g |-> InitialGState, st |-> <<>>, ops |-> <<>>, err |-> FALSE]

ctx_save(cv) == [cv EXCEPT !.st = Append(cv.st, cv.g)]

ctx_restore(cv) ==
    [cv EXCEPT !.g = cv.st[Len(cv.st)], !.st = SubSeq(cv.st, 1, Len(cv.st) - 1)]

\* ctx.scale(n / m, n / m)
ctx_scale(cv, n, m) ==
    [cv EXCEPT !.g.sn = cv.g.sn * n, !.g.tnx = cv.g.tnx * m,
               !.g.tny = cv.g.tny * m, !.g.d = cv.g.d * m]

ctx_translate(cv, x, y) ==
    [cv EXCEPT !.g.tnx = cv.g.tnx + cv.g.sn * x, !.g.tny = cv.g.tny + cv.g.sn * y]

\* One emitted command: (x, y) are the user-space coordinates passed to
\* cairo, (vx, vy) the view point the command positions, and the transform
\* in effect when it was emitted.
Emit(cv, layer, op, x, y, vx, vy, arg) ==
    [cv EXCEPT !.ops = Append(cv.ops,
        [layer |-> layer, op |-> op, x |-> x, y |-> y, vx |-> vx, vy |-> vy,
         arg |-> arg, sn |-> cv.g.sn, tnx |-> cv.g.tnx, tny |-> cv.g.tny,
         d |-> cv.g.d])]

\* int(a / b) for a float quotient: truncation toward zero
Trunc(a, b) ==
    IF (a >= 0) = (b > 0) THEN (IF a >= 0 THEN a ELSE 0 - a) \div (IF b > 0 THEN b ELSE 0 - b)
    ELSE 0 - ((IF a >= 0 THEN a ELSE 0 - a) \div (IF b > 0 THEN b ELSE 0 - b))

----------------------------------------------------------------------------
(* googleBoundsToBox2d *)

Num(v) == [ok |-> TRUE, v |-> v]
NaN == [ok |-> FALSE, v |-> 0]

\* args.bbox after split(","): each part is a number or text float() rejects.
\* "((0, 0), (4, 2))" is the box the geometry below is laid out for.
BBoxInputs ==
    { <<Num(0), Num(0), Num(4), Num(2)>>,
      <<Num(0), Num(0), Num(4), Num(2), NaN>>,
      <<Num(0), Num(0), Num(4)>>,
      <<Num(0), NaN, Num(4), Num(2)>>,
      <<NaN>> }

\* float() raises ValueError on a part that is no number, parts[i] raises
\* IndexError when there are fewer than four parts.
googleBoundsRaises(parts) ==
    Len(parts) < 4 \/ \E i \in 1..4 : ~parts[i].ok

\* (min_lng, min_lat, max_lng, max_lat)
googleBoundsToBox2d(parts) ==
    <<parts[2].v, parts[1].v, parts[4].v, parts[3].v>>

----------------------------------------------------------------------------
(* Styles: the records StyleParser can select from styles.json *)

Formats == {"pdf", "svg", "png"}

Zooms == {[n |-> 1, d |-> 1], [n |-> 1, d |-> 2]}

Indexings == {"none", "google", "tms", "f"}

Styles ==
    [format : Formats, zoom : Zooms, qrcode : BOOLEAN, map_tiles : Indexings,
     orientation : {"auto"}, map_size : {<<768, 256>>}, margin : {<<3, 5>>},
     copyright_margin : {<<3, 3>>}, qrcode_margin : {<<0, 0>>}]

NoStyle ==
    [format |-> "pdf", zoom |-> [n |-> 1, d |-> 1], qrcode |-> TRUE,
     map_tiles |-> "none", orientation |-> "auto", map_size |-> <<768, 256>>,
     margin |-> <<3, 5>>, copyright_margin |-> <<3, 3>>,
     qrcode_margin |-> <<0, 0>>]

----------------------------------------------------------------------------
(* Coordinate transforms *)

\* Layer._google_to_mapnik_coord: [lat, lng] -> Coord(lng, lat)
google_to_mapnik_coord(latlng) == <<latlng[2], latlng[1]>>

\* mapnik2.ProjTransform(longlat, merc).forward on the lattice: the two axes
\* are projected differently.
transform_forward(c) == <<2 * c[1], 3 * c[2]>>

\* MapnikRenderer._get_sizes: map_size, reversed when orientation is auto
\* and the projected box is taller than wide.
get_sizes(st, b) ==
    LET lo == transform_forward(<<b[1], b[2]>>)
        hi == transform_forward(<<b[3], b[4]>>)
    IN  IF st.orientation = "auto" /\ (hi[1] - lo[1]) < (hi[2] - lo[2])
        THEN <<st.map_size[2], st.map_size[1]>>
        ELSE st.map_size

\* mapnik2.Map(int(zoom_f * map_size[0]), int(zoom_f * map_size[1])),
\* zoom_f = 1 / zoom
MapWidth(st, b) == Trunc(get_sizes(st, b)[1] * st.zoom.d, st.zoom.n)
MapHeight(st, b) == Trunc(get_sizes(st, b)[2] * st.zoom.d, st.zoom.n)

\* self.m.view_transform().forward: the projected box onto the internal
\* canvas, y pointing down.
view_transform_forward(m, st, b) ==
    LET lo == transform_forward(<<b[1], b[2]>>)
        hi == transform_forward(<<b[3], b[4]>>)
    IN  << ((m[1] - lo[1]) * MapWidth(st, b)) \div (hi[1] - lo[1]),
           ((hi[2] - m[2]) * MapHeight(st, b)) \div (hi[2] - lo[2]) >>

\* Layer._convert_point
convert_point(latlng, st, b) ==
    view_transform_forward(transform_forward(google_to_mapnik_coord(latlng)), st, b)

----------------------------------------------------------------------------
(* Tile addressing: GlobalMercator and the tile loaders *)

RECURSIVE Pow2(_)
Pow2(n) == IF n <= 0 THEN 1 ELSE 2 * Pow2(n - 1)

\* Extent of the world on the lattice, in both axes
WorldSize == 4

\* Zoom level the tile loader settles on for the requested box
TileZoom == 1

\* GlobalMercator.TileLatLonBounds(tx, ty, tz): TMS addressing, row 0 is the
\* southernmost row.  (min_lat, min_lon, max_lat, max_lon)
TileLatLonBounds(tx, ty, tz) ==
    LET size == WorldSize \div Pow2(tz)
    IN  <<ty * size, tx * size, (ty + 1) * size, (tx + 1) * size>>

Rows == 0..(Pow2(TileZoom) - 1)

\* Geographic tiles (column, row counted from the south) that overlap the
\* box (min_lng, min_lat, max_lng, max_lat)
CoveringAreas(b) ==
    LET size == WorldSize \div Pow2(TileZoom)
    IN  {a \in Rows \X Rows :
            /\ a[1] * size < b[3] /\ (a[1] + 1) * size > b[1]
            /\ a[2] * size < b[4] /\ (a[2] + 1) * size > b[2]}

\* Row orders a custom "f" source may use
RowMaps == {f \in [Rows -> Rows] : \A r1, r2 \in Rows : f[r1] = f[r2] => r1 = r2}

\* Row index under which a loader addresses the geographic row r
LoaderRow(indexing, rowmap, r) ==
    CASE indexing = "google" -> (Pow2(TileZoom) - 1) - r
      [] indexing = "tms"    -> r
      [] OTHER               -> rowmap[r]

DigitChar(n) ==
    CASE n = 0 -> "0" [] n = 1 -> "1" [] n = 2 -> "2" [] n = 3 -> "3"
      [] n = 4 -> "4" [] n = 5 -> "5" [] n = 6 -> "6" [] n = 7 -> "7"
      [] n = 8 -> "8" [] OTHER -> "9"

\* Name of the cached raster of a tile: <tx>_<ty>_<tz>.png
TileFileName(tx, ty, tz) ==
    <<DigitChar(tx), "_", DigitChar(ty), "_", DigitChar(tz), ".", "p", "n", "g">>

\* The files of the covering set of a loader, each with the geographic tile
\* it was enumerated for
LoaderFiles(indexing, rowmap, b) ==
    {[name |-> TileFileName(a[1], LoaderRow(indexing, rowmap, a[2]), TileZoom),
      area |-> a] : a \in CoveringAreas(b)}

\* tileloader.download(...): the files it could supply, in address order
RECURSIVE InOrder(_)
InOrder(S) ==
    IF S = {} THEN <<>>
    ELSE LET f == CHOOSE x \in S : \A y \in S :
                      \/ x.area[2] < y.area[2]
                      \/ (x.area[2] = y.area[2] /\ x.area[1] <= y.area[1])
         IN  <<f>> \o InOrder(S \ {f})

NoTiles == [indexing |-> "none", cover |-> {}, files |-> <<>>]

\* CustomMapLayer.__init__: the loader chosen by options['indexing']
CustomMapLayer_init(st, b, rowmap) ==
    IF st.map_tiles = "none" THEN NoTiles
    ELSE [indexing |-> st.map_tiles,
          cover |-> LoaderFiles(st.map_tiles, rowmap, b), files |-> <<>>]

----------------------------------------------------------------------------
(* Layer.draw of every variant.  Each takes the context as it is on entry   *)
(* and gives the context as draw() leaves it; err = TRUE when draw() raised. *)

\* MapnikLayer.draw
MapnikLayer_draw(cv) == Emit(cv, "MapnikLayer", "render", 0, 0, 0, 0, <<>>)

\* the `while len(coords)` loop of _draw_area: coords.pop() takes the last
RECURSIVE PopLines(_, _)
PopLines(cv, coords) ==
    IF Len(coords) = 0 THEN cv
    ELSE LET c == coords[Len(coords)]
         IN  PopLines(Emit(cv, "AreaLayer", "line_to", c[1], c[2], c[1], c[2], <<>>),
                      SubSeq(coords, 1, Len(coords) - 1))

\* the loop taking the coordinates from the front of the list
RECURSIVE ShiftLines(_, _)
ShiftLines(cv, coords) ==
    IF Len(coords) = 0 THEN cv
    ELSE LET c == Head(coords)
         IN  ShiftLines(Emit(cv, "AreaLayer", "line_to", c[1], c[2], c[1], c[2], <<>>),
                        Tail(coords))

\* Variant: coords.pop(0), the path starts at the first point
AreaLayer_draw_area_front(cv, area, st, b) ==
    LET coords == [i \in 1..Len(area.path) |-> convert_point(area.path[i], st, b)]
    IN  IF Len(coords) = 0
        THEN [cv EXCEPT !.err = TRUE]
        ELSE LET start == Head(coords)
                 cv1 == Emit(cv, "AreaLayer", "move_to", start[1], start[2],
                             start[1], start[2], <<>>)
                 cv2 == ShiftLines(cv1, Tail(coords))
             IN  Emit(cv2, "AreaLayer", "close_path", 0, 0, 0, 0, <<>>)

\* AreaLayer._draw_area
AreaLayer_draw_area(cv, area, st, b) ==
    LET coords == [i \in 1..Len(area.path) |-> convert_point(area.path[i], st, b)]
    IN  IF Len(coords) = 0
        THEN [cv EXCEPT !.err = TRUE]     \* coords.pop() raises IndexError
        ELSE LET start == coords[Len(coords)]
                 cv1 == Emit(cv, "AreaLayer", "move_to", start[1], start[2],
                             start[1], start[2], <<>>)
                 cv2 == PopLines(cv1, SubSeq(coords, 1, Len(coords) - 1))
             IN  Emit(cv2, "AreaLayer", "close_path", 0, 0, 0, 0, <<>>)

\* the `for area in self.areas` loop
RECURSIVE DrawAreas(_, _, _, _)
DrawAreas(cv, as, st, b) ==
    IF Len(as) = 0 \/ cv.err THEN cv
    ELSE DrawAreas(AreaLayer_draw_area(cv, Head(as), st, b), Tail(as), st, b)

\* AreaLayer.draw
AreaLayer_draw(cv, as, st, b) ==
    LET cv1 == ctx_scale(ctx_save(cv), st.zoom.n, st.zoom.d)
        cv2 == DrawAreas(cv1, as, st, b)
    IN  IF cv2.err THEN cv2
        ELSE LET cv3 == [cv2 EXCEPT !.g.src = "area_border_color",
                                    !.g.lw = "area_border_width"]
             IN  ctx_restore(Emit(cv3, "AreaLayer", "stroke", 0, 0, 0, 0, <<>>))

\* CopyrightLayer.draw
CopyrightLayer_draw(cv, st, b) ==
    LET cv1 == ctx_scale(ctx_save(cv), 1, 1)
        cv2 == [cv1 EXCEPT !.g.font = "Sans 6"]
        x   == st.copyright_margin[1]
        y   == get_sizes(st, b)[2] - st.copyright_margin[2]
    IN  ctx_restore(Emit(cv2, "CopyrightLayer", "show_text", x, y, 0, 0, <<>>))

\* QRCodeLayer.__init__(self, renderer, qrcode_file) called with `args`:
\* a call with another number of arguments raises TypeError
QRCodeLayer_init(args) == [raised |-> Len(args) # 2]

\* QRCodeLayer.draw, for a QR image of 90 x 90 pixels
QRCodeLayer_draw(cv, st, b) ==
    LET cv1 == ctx_scale(ctx_save(cv), 3, 10)
        x   == Trunc(10 * get_sizes(st, b)[1], 3) - 90 - st.qrcode_margin[1]
        y   == Trunc(10 * get_sizes(st, b)[2], 3) - 90 - st.qrcode_margin[2]
        cv2 == [cv1 EXCEPT !.g.src = "qrcode"]
    IN  ctx_restore(Emit(cv2, "QRCodeLayer", "paint", x, y, 0, 0, <<>>))

\* TileLayer.draw of the tile parsed from file name `name`
TileLayer_draw(cv, t, name, st, b) ==
    LET tb       == TileLatLonBounds(t.tx, t.ty, t.tz)
        coord_nw == convert_point(<<tb[3], tb[2]>>, st, b)
        coord_se == convert_point(<<tb[1], tb[4]>>, st, b)
        tile_width == coord_se[1] - coord_nw[1]
        cv1 == ctx_save(cv)
    IN  IF tile_width = 0
        THEN [cv1 EXCEPT !.err = TRUE]    \* zoom = 0: the scale cannot be applied
        ELSE LET cv2 == ctx_scale(cv1, tile_width, 256)
                 cv3 == [cv2 EXCEPT !.g.src = "tile"]
                 x   == Trunc(256 * coord_nw[1], tile_width)
                 y   == Trunc(256 * coord_nw[2], tile_width)
             IN  ctx_restore(Emit(cv3, "TileLayer", "paint", x, y,
                                  coord_nw[1], coord_nw[2], name))

\* the `for tile in self._get_tiles()` loop
RECURSIVE DrawTiles(_, _, _, _)
DrawTiles(cv, files, st, b) ==
    IF Len(files) = 0 \/ cv.err THEN cv
    ELSE DrawTiles(TileLayer_draw(cv, TileLayer_init(Head(files).name),
                                  Head(files).name, st, b),
                   Tail(files), st, b)

\* Variant: a covering set that was not fetched completely is an error
CustomMapLayer_draw_strict(cv, tl, files, st, b) ==
    IF tl.indexing = "none" THEN cv
    ELSE IF Len(files) < Cardinality(tl.cover)
         THEN [cv EXCEPT !.err = TRUE]
         ELSE DrawTiles(cv, files, st, b)

\* CustomMapLayer.draw with `files` what download() returned: _get_tiles
\* constructs every TileLayer before the first one is drawn
CustomMapLayer_draw(cv, tl, files, st, b) ==
    IF tl.indexing = "none" THEN cv
    ELSE IF \E i \in 1..Len(files) : TileLayer_init(files[i].name).raised
         THEN [cv EXCEPT !.err = TRUE]
         ELSE DrawTiles(cv, files, st, b)

\* layer.draw() dispatched on the layer's class
Layer_draw(kind, cv, as, tl, files, st, b) ==
    CASE kind = "MapnikLayer"    -> MapnikLayer_draw(cv)
      [] kind = "CustomMapLayer" -> CustomMapLayer_draw(cv, tl, files, st, b)
      [] kind = "AreaLayer"      -> AreaLayer_draw(cv, as, st, b)
      [] kind = "CopyrightLayer" -> CopyrightLayer_draw(cv, st, b)
      [] kind = "QRCodeLayer"    -> QRCodeLayer_draw(cv, st, b)

----------------------------------------------------------------------------
(* Inputs *)

\* [lat, lng] pairs inside the box
P1 == <<1, 0>>
P2 == <<3, 1>>
P3 == <<2, 2>>

PathInputs == {<<>>, <<P1>>, <<P1, P2>>, <<P1, P2, P3>>, <<P1, P2, P3, P1>>}

RECURSIVE AreasOfLen(_)
AreasOfLen(n) ==
    IF n = 0 THEN {<<>>}
    ELSE {Append(as, [path |-> p]) : as \in AreasOfLen(n - 1), p \in PathInputs}

AreaInputs == UNION {AreasOfLen(n) : n \in 0..MaxAreas}

\* names of the styles styles.json defines
StyleNames == {"default"}

----------------------------------------------------------------------------
(* __main__ and MapnikRenderer.render *)

Init ==
    /\ pc = "start"
    /\ areas \in AreaInputs
    /\ bbox \in BBoxInputs
    /\ style_name \in {"", "missing"}
    /\ qrcode \in {"", "qr.png"}
    /\ style = NoStyle
    /\ bounds = <<0, 0, 0, 0>>
    /\ surface = "none"
    /\ gstate = InitialGState
    /\ gstack = <<>>
    /\ ops = <<>>
    /\ layers = <<>>
    /\ idx = 1
    /\ drawn = <<>>
    /\ tiles = NoTiles
    /\ output_file = ""
    /\ stdout = ""
    /\ filename = <<>>
    /\ tile = NoTile

\* StyleParser.__init__: obj[style_name or DEFAULT_STYLE] raises KeyError
\* for a name styles.json does not define
StyleParser_init ==
    /\ pc = "start"
    /\ LET name == IF style_name = "" THEN "default" ELSE style_name
       IN  IF name \in StyleNames
           THEN /\ style' \in Styles
                /\ pc' = "bbox"
           ELSE /\ style' = style
                /\ pc' = "error"
    /\ UNCHANGED <<areas, bbox, style_name, qrcode, bounds, surface, gstate,
                   gstack, ops, layers, idx, drawn, tiles, output_file, stdout,
                   filename, tile>>

\* bounds = googleBoundsToBox2d(args.bbox)
Render_bounds ==
    /\ pc = "bbox"
    /\ IF googleBoundsRaises(bbox)
       THEN /\ bounds' = bounds
            /\ pc' = "error"
       ELSE /\ bounds' = googleBoundsToBox2d(bbox)
            /\ pc' = "surface"
    /\ UNCHANGED <<areas, bbox, style_name, qrcode, style, surface, gstate,
                   gstack, ops, layers, idx, drawn, tiles, output_file, stdout,
                   filename, tile>>

\* Variant: any format other than svg falls back to pdf
Render_surface_kind_fallback(st) == IF st.format = "svg" THEN "svg" ELSE "pdf"

\* The surface of the style's format, or None
Render_surface_kind(st) ==
    IF st.format = "pdf" THEN "pdf" ELSE IF st.format = "svg" THEN "svg" ELSE "none"

\* Map and surface set-up up to ctx.translate(margin): cairo.Context(None)
\* raises TypeError
Render_surface ==
    /\ pc = "surface"
    /\ LET kind == Render_surface_kind(style)
           cv   == ctx_translate(NewContext, style.margin[1], style.margin[2])
       IN  IF kind = "none"
           THEN /\ pc' = "error"
                /\ UNCHANGED <<surface, gstate, gstack>>
           ELSE /\ surface' = kind
                /\ gstate' = cv.g
                /\ gstack' = cv.st
                /\ pc' = "layers"
    /\ UNCHANGED <<areas, bbox, style_name, qrcode, style, bounds, ops, layers,
                   idx, drawn, tiles, output_file, stdout, filename, tile>>

\* the four layers render() always appends, in its order
Render_base_layers == <<"MapnikLayer", "CustomMapLayer", "AreaLayer", "CopyrightLayer">>

\* `if qrcode and self.style.get('qrcode', True)`
Render_wants_qrcode(qr, st) == qr # "" /\ st.qrcode

\* `# create layers`: QRCodeLayer(qrcode) passes one argument besides self
Render_layers ==
    /\ pc = "layers"
    /\ \E rowmap \in (IF style.map_tiles = "f" THEN RowMaps ELSE {[r \in Rows |-> r]}) :
          tiles' = CustomMapLayer_init(style, bounds, rowmap)
    /\ IF Render_wants_qrcode(qrcode, style)
       THEN IF QRCodeLayer_init(<<qrcode>>).raised
            THEN /\ layers' = Render_base_layers
                 /\ pc' = "error"
            ELSE /\ layers' = Append(Render_base_layers, "QRCodeLayer")
                 /\ pc' = "draw"
       ELSE /\ layers' = Render_base_layers
            /\ pc' = "draw"
    /\ idx' = 1
    /\ UNCHANGED <<areas, bbox, style_name, qrcode, style, bounds, surface,
                   gstate, gstack, ops, drawn, output_file, stdout, filename, tile>>

\* Variant: the loop walks the list from its end
Render_next_layer_reversed(ls, i) == ls[Len(ls) + 1 - i]

\* the layer the `for layer in layers` loop draws at position i
Render_next_layer(ls, i) == ls[i]

\* One iteration of `for layer in layers: layer.draw()`.  An exception in
\* draw() leaves render() with the context as it was when raised.
Render_draw ==
    /\ pc = "draw"
    /\ idx <= Len(layers)
    /\ LET kind == Render_next_layer(layers, idx)
       IN  \E got \in (IF kind = "CustomMapLayer" THEN SUBSET tiles.cover ELSE {{}}) :
              LET files == InOrder(got)
                  cv == Layer_draw(kind,
                                   [g |-> gstate, st |-> gstack, ops |-> ops, err |-> FALSE],
                                   areas, tiles, files, style, bounds)
              IN  /\ gstate' = cv.g
                  /\ gstack' = cv.st
                  /\ ops' = cv.ops
                  /\ drawn' = Append(drawn, kind)
                  /\ tiles' = IF kind = "CustomMapLayer"
                              THEN [tiles EXCEPT !.files = files] ELSE tiles
                  /\ IF cv.err
                     THEN pc' = "error" /\ idx' = idx
                     ELSE pc' = "draw" /\ idx' = idx + 1
    /\ UNCHANGED <<areas, bbox, style_name, qrcode, style, bounds, surface,
                   layers, output_file, stdout, filename, tile>>

\* surface.finish(); self.output_file = map_uri
Render_finish ==
    /\ pc = "draw"
    /\ idx > Len(layers)
    /\ surface' = "finished"
    /\ output_file' = "map_uri"
    /\ pc' = "done"
    /\ UNCHANGED <<areas, bbox, style_name, qrcode, style, bounds, gstate, gstack,
                   ops, layers, idx, drawn, tiles, stdout, filename, tile>>

\* fn = r.get_output(); sys.stdout.write("%s" % fn)
Main_write ==
    /\ pc = "done"
    /\ stdout' = output_file
    /\ pc' = "exit"
    /\ UNCHANGED <<areas, bbox, style_name, qrcode, style, bounds, surface, gstate,
                   gstack, ops, layers, idx, drawn, tiles, output_file, filename, tile>>

Next ==
    \/ StyleParser_init
    \/ Render_bounds
    \/ Render_surface
    \/ Render_layers
    \/ Render_draw
    \/ Render_finish
    \/ Main_write

Spec == Init /\ [][Next]_vars

----------------------------------------------------------------------------
(* Construction of one TileLayer from any file name *)

InitTile ==
    /\ pc = "tile_new"
    /\ filename \in Names(MaxNameLen)
    /\ tile = NoTile
    /\ areas = <<>>
    /\ bbox = <<>>
    /\ style_name = ""
    /\ qrcode = ""
    /\ style = NoStyle
    /\ bounds = <<0, 0, 0, 0>>
    /\ surface = "none"
    /\ gstate = InitialGState
    /\ gstack = <<>>
    /\ ops = <<>>
    /\ layers = <<>>
    /\ idx = 1
    /\ drawn = <<>>
    /\ tiles = NoTiles
    /\ output_file = ""
    /\ stdout = ""

TileLayer_new ==
    /\ pc = "tile_new"
    /\ tile' = TileLayer_init(filename)
    /\ pc' = IF tile'.raised THEN "tile_error" ELSE "tile_done"
    /\ UNCHANGED <<areas, bbox, style_name, qrcode, style, bounds, surface, gstate,
                   gstack, ops, layers, idx, drawn, tiles, output_file, stdout,
                   filename>>

NextTile == TileLayer_new

SpecTile == InitTile /\ [][NextTile]_vars

----------------------------------------------------------------------------
(* Properties *)

FixedOrder ==
    <<"MapnikLayer", "CustomMapLayer", "AreaLayer", "CopyrightLayer", "QRCodeLayer">>

IsPrefix(s, t) == Len(s) <= Len(t) /\ \A i \in 1..Len(s) : s[i] = t[i]

IsAreaPathOp(o) == o.layer = "AreaLayer" /\ o.op # "stroke"
IsTilePaint(o) == o.layer = "TileLayer" /\ o.op = "paint"

\* C1: draw() is invoked on the layers in the fixed order BaseMap,
\* TileOverlay, AreaOverlay, CopyrightNotice, QrCodeStamp, each at most once
\* and none before its predecessor, and the surface is finished only after
\* every layer of the list has been drawn.
C1_FixedDrawOrder ==
    /\ IsPrefix(drawn, FixedOrder)
    /\ IsPrefix(drawn, layers)
    /\ surface = "finished" => (drawn = layers /\ Len(drawn) >= 4)

C1_Witness ==
    /\ surface = "finished"
    /\ drawn = <<"MapnikLayer", "CustomMapLayer", "AreaLayer", "CopyrightLayer">>
    /\ Len(tiles.files) > 0
    /\ Len(areas) > 0

\* C2: whenever a layer's draw() is invoked, the graphics state and the
\* save stack of the context after the call equal those before it, also
\* when draw() raised.
C2_ScopedState ==
    [][(pc = "draw" /\ drawn' # drawn) => (gstate' = gstate /\ gstack' = gstack)]_vars

\* C3: an area path of 0 or 1 points emits no path command and raises no
\* error: once AreaLayer.draw has run it has not raised, and it has emitted
\* one move_to ... close_path polygon per area of at least two points.
C3_PolygonCount ==
    Cardinality({i \in 1..Len(areas) : Len(areas[i].path) >= 2})

C3_DegeneratePathsSkipped ==
    Len(drawn) >= 3 =>
        /\ ~(pc = "error" /\ Len(drawn) = 3)
        /\ Len(SelectSeq(ops, LAMBDA o : o.layer = "AreaLayer" /\ o.op = "move_to"))
              = C3_PolygonCount
        /\ Len(SelectSeq(ops, LAMBDA o : o.layer = "AreaLayer" /\ o.op = "close_path"))
              = C3_PolygonCount

\* C4: when download() returned M files of a covering set of N > M
\* addresses, CustomMapLayer.draw has painted exactly those M files, one
\* paint each in the order returned, it has not raised, and the loop goes on
\* to the layers after it: AreaLayer is drawn next, and a finished render has
\* drawn the area and copyright layers.
C4_TilePaints == SelectSeq(ops, IsTilePaint)

C4_MissingTilesDegrade ==
    (Len(drawn) >= 2 /\ tiles.indexing # "none"
                     /\ Len(tiles.files) < Cardinality(tiles.cover)) =>
        /\ Len(C4_TilePaints) = Len(tiles.files)
        /\ \A i \in 1..Len(tiles.files) : C4_TilePaints[i].arg = tiles.files[i].name
        /\ Len(drawn) = 2 => (pc = "draw" /\ idx = 3 /\ layers[idx] = "AreaLayer")
        /\ Len(drawn) >= 3 => drawn[3] = "AreaLayer"
        /\ surface = "finished" => (drawn[3] = "AreaLayer" /\ drawn[4] = "CopyrightLayer")

C4_Witness ==
    /\ surface = "finished"
    /\ Cardinality(tiles.cover) = 2
    /\ Len(tiles.files) = 1
    /\ Len(C4_TilePaints) = 1

\* C5: constructing a TileLayer never raises; a base name that is not three
\* integers joined by "_" gives the address (0, 0, 0), and <tx>_<ty>_<tz>
\* gives exactly (tx, ty, tz).
C5_BaseName == Split(Basename(filename), ".")[1]

C5_IsThreeIntegers ==
    LET parts == Split(C5_BaseName, "_")
    IN  Len(parts) = 3 /\ \A i \in 1..3 : IntOk(parts[i])

C5_ParseNeverRaises ==
    pc # "tile_new" =>
        /\ pc = "tile_done"
        /\ ~tile.raised
        /\ IF C5_IsThreeIntegers
           THEN LET parts == Split(C5_BaseName, "_")
                IN  <<tile.tx, tile.ty, tile.tz>>
                       = <<IntVal(parts[1]), IntVal(parts[2]), IntVal(parts[3])>>
           ELSE <<tile.tx, tile.ty, tile.tz>> = <<0, 0, 0>>

\* C6: the QR layer is drawn if and only if a QR image path was supplied and
\* the style's qrcode setting is not false; when both hold the render does
\* not stop at the construction of the layers, and a completed render has
\* drawn the QR layer last, after the copyright layer.
C6_QrCodeIffRequested ==
    /\ (layers # <<>> /\ Render_wants_qrcode(qrcode, style)) =>
            ~(pc = "error" /\ drawn = <<>>)
    /\ pc \in {"done", "exit"} =>
            IF Render_wants_qrcode(qrcode, style)
            THEN drawn = FixedOrder
            ELSE drawn = SubSeq(FixedOrder, 1, 4)

\* C7: every path point of the area layer and every tile raster is emitted
\* with the style's zoom applied: the view point (vx, vy) it positions lands
\* at the device position (zoom * vx + margin_x, zoom * vy + margin_y).
C7_AtZoomedPosition(o) ==
    /\ (o.sn * o.x + o.tnx) * style.zoom.d
          = (style.zoom.n * o.vx + style.margin[1] * style.zoom.d) * o.d
    /\ (o.sn * o.y + o.tny) * style.zoom.d
          = (style.zoom.n * o.vy + style.margin[2] * style.zoom.d) * o.d

C7_ZoomAppliedByOverlays ==
    \A i \in 1..Len(ops) :
        (ops[i].op \in {"move_to", "line_to"} \/ IsTilePaint(ops[i]))
            => C7_AtZoomedPosition(ops[i])

\* C8: a malformed bounding box, a style name styles.json does not define or
\* an output format other than pdf and svg stops render() before any layer
\* is drawn; no output location is recorded or written.  A box is malformed
\* when it has fewer than four comma-separated parts or one of the four
\* coordinates is no number; the parser does not look at text after them.
C8_Malformed == Len(bbox) < 4 \/ \E i \in 1..4 : ~bbox[i].ok

C8_UnknownStyle == style_name \notin {"", "default"}

C8_BadFormat == pc # "start" /\ style.format \notin {"pdf", "svg"}

RECURSIVE C9_Segments(_, _)
C9_Segments(s, cur) ==
    IF Len(s) = 0 THEN <<>>
    ELSE LET o == <<Head(s).op, Head(s).x, Head(s).y>>
         IN  IF Head(s).op = "close_path"
             THEN <<Append(cur, o)>> \o C9_Segments(Tail(s), <<>>)
             ELSE C9_Segments(Tail(s), Append(cur, o))

C9_AreaSegments == C9_Segments(SelectSeq(ops, IsAreaPathOp), <<>>)

\* (lat, lng) swapped once, projected, mapped to the view
C9_Converted(latlng) ==
    view_transform_forward(transform_forward(<<latlng[2], latlng[1]>>), style, bounds)

C9_InInputOrder(path) ==
    <<<<"move_to", C9_Converted(path[1])[1], C9_Converted(path[1])[2]>>>>
    \o [i \in 1..(Len(path) - 1) |->
            <<"line_to", C9_Converted(path[i + 1])[1], C9_Converted(path[i + 1])[2]>>]
    \o <<<<"close_path", 0, 0>>>>

C9_InReverseOrder(path) ==
    LET n == Len(path)
    IN  <<<<"move_to", C9_Converted(path[n])[1], C9_Converted(path[n])[2]>>>>
        \o [i \in 1..(n - 1) |->
                <<"line_to", C9_Converted(path[n - i])[1], C9_Converted(path[n - i])[2]>>]
        \o <<<<"close_path", 0, 0>>>>

\* C9 as stated: the polygon of a path p1..pn, n >= 2, is move_to p1,
\* line_to p2 .. pn in input order, close_path.
C9_PolygonInInputOrder ==
    LET segs == C9_AreaSegments
    IN  \A k \in 1..Len(segs) :
            Len(areas[k].path) >= 2 => segs[k] = C9_InInputOrder(areas[k].path)

\* C9 amended: the polygon of a path p1..pn, n >= 2, is move_to pn, line_to
\* pn-1 .. p1 in reverse input order, then one close_path, each point with
\* (lat, lng) swapped exactly once before projection.
C9_PolygonInReverseOrder ==
    LET segs == C9_AreaSegments
    IN  \A k \in 1..Len(segs) :
            Len(areas[k].path) >= 2 => segs[k] = C9_InReverseOrder(areas[k].path)

C9_Witness ==
    /\ surface = "finished"
    /\ Len(C9_AreaSegments) = 2
    /\ Len(areas[1].path) = 3
    /\ Len(areas[2].path) = 4
    /\ style.zoom.d = 2

\* C10: every drawn tile is placed over the geographic tile its address was
\* enumerated for by the loader of the style's indexing mode: the corner the
\* raster is anchored at is the north-west corner of that tile.  Stated for
\* the google and tms modes, whose row formulas are known.
C10_NorthWest(a) ==
    LET size == WorldSize \div Pow2(TileZoom)
    IN  convert_point(<<(a[2] + 1) * size, a[1] * size>>, style, bounds)

C10_TilePlacedOverItsArea ==
    \A i \in 1..Len(ops) :
        (IsTilePaint(ops[i]) /\ tiles.indexing \in {"google", "tms"}) =>
            \E j \in 1..Len(tiles.files) :
                /\ tiles.files[j].name = ops[i].arg
                /\ <<ops[i].vx, ops[i].vy>> = C10_NorthWest(tiles.files[j].area)

====
